---------------------------- MODULE Spec2Model ----------------------------
(***************************************************************************)
(* Model of Detect_prevent_leak_mry.cpp: a malloc/free wrapper that keeps  *)
(* one linked-list Node per live allocation and reports the nodes that     *)
(* remain.  The heap is a pool of block addresses shared by client blocks  *)
(* and bookkeeping nodes; the raw allocator hands out any block that is    *)
(* not live, or fails.                                                     *)
(***************************************************************************)
EXTENDS Integers, Sequences, FiniteSets, TLC

\* ------------------------------------------------------------------------
\* Bounds of the model
\* ------------------------------------------------------------------------

\* Number of block addresses the raw allocator can hand out.
NAddr == 6

\* ------------------------------------------------------------------------
\* Values
\* ------------------------------------------------------------------------

NULL == 0

Addr == 1 .. NAddr

Ptr == Addr \cup {NULL}

\* The byte counts main() asks for.  A size is stored and printed, never
\* computed with, so two distinct values stand for all of them.
Size1 == 10

Size2 == 20

Sizes == {0, Size1, Size2}

\* struct Node { void *ptr; size_t size; struct Node *next; }
Node == [ptr : Addr, size : Sizes \ {0}, next : Ptr]

VARIABLES
    head,      \* Node *head: address of the first node, or NULL
    node,      \* contents of the blocks that hold a Node: address -> Node
    live,      \* blocks the raw allocator has handed out and not got back
    ret,       \* value returned by the last call (NULL for a void call)
    diag,      \* the message the last call wrote to cout ("none": nothing)
    report,    \* the "Leaked memory at" lines of the last call, in order
    calls,     \* raw-allocator calls made by the last call, in order:
               \* <<"malloc", result>> or <<"free", argument>>
    op,        \* the last call: its name and argument
    tracked,   \* history: address -> size, for the addresses my_malloc
               \* returned and my_free has not found since
    reuse,     \* history: the last call was a my_malloc that returned the
               \* address the call before it released through my_free, or
               \* it was the my_free of that address right after such a
               \* my_malloc
    order,     \* history: the addresses of tracked, most recently returned
               \* first
    pos,       \* history: the place in order (1 = most recent) of the address
               \* the last my_free found, 0 when a my_malloc or a my_free
               \* that found nothing came after it
    phase,     \* position of the round-trip client ("off" when absent);
               \* with threads, "serial" until two calls have overlapped
    thread     \* per thread: the statement it is at inside a call ("idle"
               \* between calls) and the locals of that call

vars == <<head, node, live, ret, diag, report, calls, op, tracked, reuse, order,
          pos, phase, thread>>

\* The messages of the program.
AllocationFailedMsg == "Memory allocation Failed!"

TrackingFailedMsg == "Memory allocation for tracking failed!"

UntrackedFreeMsg == "Attempted to free untrack pointer:"

NoLeaksMsg == "No memory leaks detected."

LeaksMsg == "Memory leaks detected:"

\* ------------------------------------------------------------------------
\* The raw allocator
\* ------------------------------------------------------------------------

\* malloc(n), n > 0, with L the live blocks: NULL, or a block that is not live.
malloc(L) == {NULL} \cup (Addr \ L)

\* free(p): the block is no longer live.
free(L, p) == L \ {p}

\* ------------------------------------------------------------------------
\* The list
\* ------------------------------------------------------------------------

\* f with x removed from its domain.
Drop(f, x) == [y \in (DOMAIN f) \ {x} |-> f[y]]

\* f extended or overwritten at x.
Put(f, x, v) == [y \in (DOMAIN f) \cup {x} |-> IF y = x THEN v ELSE f[y]]

\* The nodes visited from current by following next until NULL, in order.
\* There are NAddr blocks, so a walk of more than NAddr nodes is on a cycle
\* and is cut after NAddr + 1 nodes.
RECURSIVE Walk(_, _, _)
Walk(nd, current, n) ==
    IF current = NULL \/ n = 0 THEN <<>>
    ELSE <<current>> \o Walk(nd, nd[current].next, n - 1)

Chain(nd, current) == Walk(nd, current, NAddr + 1)

\* The {address, size} lines of the list starting at current.
Entries(nd, current) ==
    LET c == Chain(nd, current)
    IN  [i \in 1 .. Len(c) |-> [ptr |-> nd[c[i]].ptr, size |-> nd[c[i]].size]]

\* The addresses that have a record in the list.
Records ==
    LET c == Chain(node, head) IN {node[c[i]].ptr : i \in 1 .. Len(c)}

\* ------------------------------------------------------------------------
\* my_malloc
\* ------------------------------------------------------------------------

\* Variant of ZeroSized: the size-0 request goes to the raw allocator and is
\* tracked like any other (no size == 0 test).
ZeroSized_Allocates ==
    \E ptr \in Addr \ live : \E new_node \in Addr \ (live \cup {ptr}) :
        /\ node' = Put(node, new_node, [ptr |-> ptr, size |-> 0, next |-> head])
        /\ head' = new_node
        /\ live' = live \cup {ptr, new_node}
        /\ ret' = ptr
        /\ diag' = "none"
        /\ calls' = << <<"malloc", ptr>>, <<"malloc", new_node>> >>

\* size == 0: return NULL.
ZeroSized ==
    /\ ret' = NULL
    /\ diag' = "none"
    /\ calls' = <<>>
    /\ UNCHANGED <<head, node, live>>

\* Variant of AllocationFailed: no ptr == NULL test, so a record is made for
\* the NULL result.
AllocationFailed_Unchecked(size) ==
    \E new_node \in Addr \ live :
        /\ node' = Put(node, new_node, [ptr |-> NULL, size |-> size, next |-> head])
        /\ head' = new_node
        /\ live' = live \cup {new_node}
        /\ ret' = NULL
        /\ diag' = "none"
        /\ calls' = << <<"malloc", NULL>>, <<"malloc", new_node>> >>

\* ptr == NULL after malloc(size).
AllocationFailed(size) ==
    /\ ret' = NULL
    /\ diag' = AllocationFailedMsg
    /\ calls' = << <<"malloc", NULL>> >>
    /\ UNCHANGED <<head, node, live>>

\* Variant of TrackingFailed: the free(ptr) is missing.
TrackingFailed_Leaks(ptr) ==
    /\ live' = live \cup {ptr}
    /\ ret' = NULL
    /\ diag' = TrackingFailedMsg
    /\ calls' = << <<"malloc", ptr>>, <<"malloc", NULL>> >>
    /\ UNCHANGED <<head, node>>

\* Variant of TrackingFailed: it prints the message of AllocationFailed.
TrackingFailed_SameMessage(ptr) ==
    /\ live' = free(live \cup {ptr}, ptr)
    /\ ret' = NULL
    /\ diag' = AllocationFailedMsg
    /\ calls' = << <<"malloc", ptr>>, <<"malloc", NULL>>, <<"free", ptr>> >>
    /\ UNCHANGED <<head, node>>

\* new_node == NULL after malloc(sizeof(Node)): free(ptr), return NULL.
TrackingFailed(ptr) ==
    /\ live' = free(live \cup {ptr}, ptr)
    /\ ret' = NULL
    /\ diag' = TrackingFailedMsg
    /\ calls' = << <<"malloc", ptr>>, <<"malloc", NULL>>, <<"free", ptr>> >>
    /\ UNCHANGED <<head, node>>

\* Variant of Link: the head = new_node is missing.
Link_HeadNotMoved(new_node, ptr, size) ==
    /\ node' = Put(node, new_node, [ptr |-> ptr, size |-> size, next |-> head])
    /\ head' = head
    /\ live' = live \cup {ptr, new_node}
    /\ ret' = ptr
    /\ diag' = "none"
    /\ calls' = << <<"malloc", ptr>>, <<"malloc", new_node>> >>

\* Variant of Link: the new node is appended after the last node instead of
\* put in front of the first.
Link_AtTail(new_node, ptr, size) ==
    /\ LET c == Chain(node, head)
           fresh == [ptr |-> ptr, size |-> size, next |-> NULL]
       IN  IF c = <<>>
           THEN /\ node' = Put(node, new_node, fresh)
                /\ head' = new_node
           ELSE /\ node' = Put([node EXCEPT ![c[Len(c)]].next = new_node],
                               new_node, fresh)
                /\ head' = head
    /\ live' = live \cup {ptr, new_node}
    /\ ret' = ptr
    /\ diag' = "none"
    /\ calls' = << <<"malloc", ptr>>, <<"malloc", new_node>> >>

\* Variant of Link: new_node->size gets sizeof(size), a constant, not size.
Link_SizeOfSize(new_node, ptr, size) ==
    /\ node' = Put(node, new_node, [ptr |-> ptr, size |-> Size1, next |-> head])
    /\ head' = new_node
    /\ live' = live \cup {ptr, new_node}
    /\ ret' = ptr
    /\ diag' = "none"
    /\ calls' = << <<"malloc", ptr>>, <<"malloc", new_node>> >>

\* Variant of Link: new_node->next = new_node, after head = new_node was
\* moved before it.
Link_NextIsSelf(new_node, ptr, size) ==
    /\ node' = Put(node, new_node,
                   [ptr |-> ptr, size |-> size, next |-> new_node])
    /\ head' = new_node
    /\ live' = live \cup {ptr, new_node}
    /\ ret' = ptr
    /\ diag' = "none"
    /\ calls' = << <<"malloc", ptr>>, <<"malloc", new_node>> >>

\* new_node->ptr = ptr; new_node->size = size; new_node->next = head;
\* head = new_node; return ptr.
Link(new_node, ptr, size) ==
    /\ node' = Put(node, new_node, [ptr |-> ptr, size |-> size, next |-> head])
    /\ head' = new_node
    /\ live' = live \cup {ptr, new_node}
    /\ ret' = ptr
    /\ diag' = "none"
    /\ calls' = << <<"malloc", ptr>>, <<"malloc", new_node>> >>

my_malloc(size) ==
    /\ report' = <<>>
    /\ IF size = 0
       THEN ZeroSized
       ELSE \E ptr \in malloc(live) :
              IF ptr = NULL
              THEN AllocationFailed(size)
              ELSE \E new_node \in malloc(live \cup {ptr}) :
                     IF new_node = NULL
                     THEN TrackingFailed(ptr)
                     ELSE Link(new_node, ptr, size)

\* ------------------------------------------------------------------------
\* my_free
\* ------------------------------------------------------------------------

\* Variant of Find: the loop looks at the first node only.
Find_HeadOnly(current, previous, ptr) ==
    IF current # NULL /\ node[current].ptr = ptr
    THEN <<current, previous>>
    ELSE <<NULL, current>>

\* The while loop of my_free: <<current, previous>> when it stops, current
\* being the first node whose ptr is ptr, or NULL when there is none.
RECURSIVE Find(_, _, _)
Find(current, previous, ptr) ==
    IF current = NULL THEN <<NULL, previous>>
    ELSE IF node[current].ptr = ptr THEN <<current, previous>>
    ELSE Find(node[current].next, current, ptr)

\* Variant of Unlink: both blocks are freed and the node stays in the list.
Unlink_NotUnlinked(current, previous) ==
    /\ head' = head
    /\ node' = node
    /\ live' = free(free(live, node[current].ptr), current)
    /\ diag' = "none"
    /\ calls' = << <<"free", node[current].ptr>>, <<"free", current>> >>

\* Variant of Unlink: head = current->next whatever previous is.
Unlink_AlwaysHead(current, previous) ==
    /\ head' = node[current].next
    /\ node' = Drop(node, current)
    /\ live' = free(free(live, node[current].ptr), current)
    /\ diag' = "none"
    /\ calls' = << <<"free", node[current].ptr>>, <<"free", current>> >>

\* Variant of Unlink: free(current->ptr) twice, no free(current).
Unlink_FreesBlockTwice(current, previous) ==
    /\ IF previous = NULL
       THEN /\ head' = node[current].next
            /\ node' = Drop(node, current)
       ELSE /\ head' = head
            /\ node' = Drop([node EXCEPT ![previous].next = node[current].next],
                            current)
    /\ live' = free(free(live, node[current].ptr), node[current].ptr)
    /\ diag' = "none"
    /\ calls' = << <<"free", node[current].ptr>>, <<"free", node[current].ptr>> >>

\* Take current out of the list (the head moves, or previous skips it),
\* then free(current->ptr); free(current).
Unlink(current, previous) ==
    /\ IF previous = NULL
       THEN /\ head' = node[current].next
            /\ node' = Drop(node, current)
       ELSE /\ head' = head
            /\ node' = Drop([node EXCEPT ![previous].next = node[current].next],
                            current)
    /\ live' = free(free(live, node[current].ptr), current)
    /\ diag' = "none"
    /\ calls' = << <<"free", node[current].ptr>>, <<"free", current>> >>

\* Variant of Untracked: an address without a record is handed to free().
Untracked_FreesAnyway(ptr) ==
    /\ diag' = "none"
    /\ calls' = << <<"free", ptr>> >>
    /\ live' = free(live, ptr)
    /\ UNCHANGED <<head, node>>

\* The loop ended without a match: the message, and nothing else.
Untracked(ptr) ==
    /\ diag' = UntrackedFreeMsg
    /\ calls' = <<>>
    /\ UNCHANGED <<head, node, live>>

\* Variant of Search: a pointer that was released and whose address the
\* last my_malloc returned again is turned away.
Search_TurnsStaleAway(ptr) ==
    LET f == Find(head, NULL, ptr)
    IN  IF f[1] # NULL /\ ~(reuse /\ ptr = ret)
        THEN Unlink(f[1], f[2])
        ELSE Untracked(ptr)

\* my_free from the traversal on.
Search(ptr) ==
    LET f == Find(head, NULL, ptr)
    IN  IF f[1] # NULL THEN Unlink(f[1], f[2]) ELSE Untracked(ptr)

\* Variant of NullFree: no ptr == NULL test, NULL is searched for.
NullFree_Unchecked == Search(NULL)

\* ptr == NULL: return.
NullFree ==
    /\ diag' = "none"
    /\ calls' = <<>>
    /\ UNCHANGED <<head, node, live>>

my_free(ptr) ==
    /\ ret' = NULL
    /\ report' = <<>>
    /\ IF ptr = NULL THEN NullFree ELSE Search(ptr)

\* ------------------------------------------------------------------------
\* Report_memory_leaks
\* ------------------------------------------------------------------------

\* Variant of Report_memory_leaks: the loop stops at the last node
\* (while (current->next != NULL)) and does not print it.
Report_SkipsLast ==
    /\ ret' = NULL
    /\ calls' = <<>>
    /\ IF head = NULL
       THEN /\ diag' = NoLeaksMsg
            /\ report' = <<>>
       ELSE /\ diag' = LeaksMsg
            /\ report' = SubSeq(Entries(node, head), 1,
                                Len(Entries(node, head)) - 1)
    /\ UNCHANGED <<head, node, live>>

\* Variant of Report_memory_leaks: the loop advances head itself.
Report_ConsumesList ==
    /\ ret' = NULL
    /\ calls' = <<>>
    /\ IF head = NULL
       THEN /\ diag' = NoLeaksMsg
            /\ report' = <<>>
       ELSE /\ diag' = LeaksMsg
            /\ report' = Entries(node, head)
    /\ head' = NULL
    /\ UNCHANGED <<node, live>>

Report_memory_leaks ==
    /\ ret' = NULL
    /\ calls' = <<>>
    /\ IF head = NULL
       THEN /\ diag' = NoLeaksMsg
            /\ report' = <<>>
       ELSE /\ diag' = LeaksMsg
            /\ report' = Entries(node, head)
    /\ UNCHANGED <<head, node, live>>

\* ------------------------------------------------------------------------
\* Clients
\* ------------------------------------------------------------------------

\* The history of the calls: what my_malloc returned and my_free has not
\* found since (a my_free that finds its argument prints nothing).
\* seq without its entries equal to x.
Without(seq, x) == SelectSeq(seq, LAMBDA y : y # x)

\* The first place of x in seq, 0 when it is not there.
IndexOf(seq, x) ==
    IF \E i \in 1 .. Len(seq) : seq[i] = x
    THEN CHOOSE i \in 1 .. Len(seq) :
             seq[i] = x /\ \A j \in 1 .. i - 1 : seq[j] # x
    ELSE 0

\* The callers of the concurrent adaptation.
Threads == {"t1", "t2"}

\* A thread between two calls: no locals.
Idle ==
    [pc |-> "idle", data |-> NULL, size |-> 0, ptr |-> NULL,
     new_node |-> NULL, current |-> NULL, previous |-> NULL]

Returned(size) ==
    /\ tracked' = IF ret' # NULL THEN Put(tracked, ret', size) ELSE tracked
    /\ order' = IF ret' # NULL THEN <<ret'>> \o Without(order, ret') ELSE order
    /\ pos' = 0
    /\ reuse' = /\ ret' # NULL
                /\ op.name = "my_free"
                /\ calls # <<>>
                /\ calls[1] = <<"free", ret'>>

Found(ptr) ==
    /\ tracked' = IF ptr # NULL /\ diag' = "none"
                  THEN Drop(tracked, ptr) ELSE tracked
    /\ order' = IF ptr # NULL /\ diag' = "none"
                THEN Without(order, ptr) ELSE order
    /\ pos' = IF ptr # NULL /\ diag' = "none" THEN IndexOf(order, ptr) ELSE 0
    /\ reuse' = /\ reuse
                /\ op.name = "my_malloc"
                /\ ptr = ret

Init ==
    /\ head = NULL
    /\ node = << >>
    /\ live = {}
    /\ ret = NULL
    /\ diag = "none"
    /\ report = <<>>
    /\ calls = <<>>
    /\ op = [name |-> "none", arg |-> NULL]
    /\ tracked = << >>
    /\ reuse = FALSE
    /\ order = <<>>
    /\ pos = 0
    /\ phase = "off"
    /\ thread = [t \in Threads |-> Idle]

\* Any client: any call with any argument, at any time.
Malloc ==
    \E size \in Sizes :
        /\ my_malloc(size)
        /\ op' = [name |-> "my_malloc", arg |-> size]
        /\ Returned(size)
        /\ UNCHANGED <<phase, thread>>

Free ==
    \E ptr \in Ptr :
        /\ my_free(ptr)
        /\ op' = [name |-> "my_free", arg |-> ptr]
        /\ Found(ptr)
        /\ UNCHANGED <<phase, thread>>

Report ==
    /\ Report_memory_leaks
    /\ op' = [name |-> "Report_memory_leaks", arg |-> NULL]
    /\ UNCHANGED <<tracked, reuse, order, pos, phase, thread>>

Next == Malloc \/ Free \/ Report

Spec == Init /\ [][Next]_vars

\* ------------------------------------------------------------------------
\* The round-trip client: successful my_malloc calls, then my_free on every
\* returned address once, in any order, then Report_memory_leaks (main()
\* with every allocation freed before the report).
\* ------------------------------------------------------------------------

InitTrip ==
    /\ head = NULL
    /\ node = << >>
    /\ live = {}
    /\ ret = NULL
    /\ diag = "none"
    /\ report = <<>>
    /\ calls = <<>>
    /\ op = [name |-> "none", arg |-> NULL]
    /\ tracked = << >>
    /\ reuse = FALSE
    /\ order = <<>>
    /\ pos = 0
    /\ phase = "alloc"
    /\ thread = [t \in Threads |-> Idle]

TripMalloc ==
    /\ phase = "alloc"
    /\ \E size \in Sizes \ {0} :
        /\ my_malloc(size)
        /\ ret' # NULL
        /\ op' = [name |-> "my_malloc", arg |-> size]
        /\ tracked' = Put(tracked, ret', size)
        /\ order' = <<ret'>> \o order
    /\ reuse' = FALSE
    /\ pos' = 0
    /\ phase' = "alloc"
    /\ UNCHANGED thread

TripFree ==
    /\ phase \in {"alloc", "free"}
    /\ \E ptr \in DOMAIN tracked :
        /\ my_free(ptr)
        /\ op' = [name |-> "my_free", arg |-> ptr]
        /\ tracked' = Drop(tracked, ptr)
        /\ order' = Without(order, ptr)
        /\ pos' = IndexOf(order, ptr)
    /\ reuse' = FALSE
    /\ phase' = "free"
    /\ UNCHANGED thread

TripReport ==
    /\ phase \in {"alloc", "free"}
    /\ DOMAIN tracked = {}
    /\ Report_memory_leaks
    /\ op' = [name |-> "Report_memory_leaks", arg |-> NULL]
    /\ phase' = IF phase = "free" THEN "done" ELSE "done_empty"
    /\ UNCHANGED <<tracked, reuse, order, pos, thread>>

NextTrip == TripMalloc \/ TripFree \/ TripReport

SpecTrip == InitTrip /\ [][NextTrip]_vars

\* ------------------------------------------------------------------------
\* The concurrent adaptation: each thread runs main()'s calls for one
\* pointer (data = my_malloc(size); Report_memory_leaks(); my_free(data)),
\* the statements of the three functions one shared read or write at a
\* time, with no lock. A statement that reads or writes a node that is no longer a
\* node, or frees a block that is not live, has no defined outcome: the
\* thread is "undefined" from there and the program is followed no further.
\* ------------------------------------------------------------------------

InitRace ==
    /\ head = NULL
    /\ node = << >>
    /\ live = {}
    /\ ret = NULL
    /\ diag = "none"
    /\ report = <<>>
    /\ calls = <<>>
    /\ op = [name |-> "none", arg |-> NULL]
    /\ tracked = << >>
    /\ reuse = FALSE
    /\ order = <<>>
    /\ pos = 0
    /\ phase = "serial"
    /\ thread = [t \in Threads |-> Idle]

\* The size a thread asks for: main()'s two requests, one per thread.
Request(t) == IF t = "t1" THEN Size1 ELSE Size2

Defined == \A u \in Threads : thread[u].pc # "undefined"

\* The places of a thread between two calls: before my_malloc, before
\* Report_memory_leaks, before my_free, and after the last call.
Between == {"idle", "report", "free", "done"}

\* Variant of Busy: a call inside another thread's call is not noticed.
Busy_Unnoticed(t) == FALSE

\* Another thread is inside a call.
Busy(t) == \E u \in Threads \ {t} : thread[u].pc \notin Between

\* Thread t enters the call it is before.
Begin(t, pc) ==
    /\ thread[t].pc = pc
    /\ Defined
    /\ phase' = IF Busy(t) THEN "overlapped" ELSE phase

\* Thread t goes on inside its call.
Step(t, pc) ==
    /\ thread[t].pc = pc
    /\ Defined
    /\ phase' = phase

\* The call of thread t returns; the thread keeps data and is before the
\* call at pc.
Return(t, pc, data, name, arg, value, msg) ==
    /\ thread' = [thread EXCEPT ![t] = [Idle EXCEPT !.pc = pc, !.data = data]]
    /\ op' = [name |-> name, arg |-> arg]
    /\ ret' = value
    /\ diag' = msg

Undefined(t) ==
    /\ thread' = [thread EXCEPT ![t].pc = "undefined"]
    /\ UNCHANGED <<head, node, live, ret, diag, op, tracked>>

\* data = my_malloc(size), up to the first malloc and its test.
RaceAllocate(t) ==
    /\ Begin(t, "idle")
    /\ LET size == Request(t)
       IN  IF size = 0
           THEN /\ Return(t, "report", NULL, "my_malloc", size, NULL, "none")
                /\ live' = live
           ELSE \E ptr \in malloc(live) :
                   IF ptr = NULL
                   THEN /\ Return(t, "report", NULL, "my_malloc", size, NULL,
                                  AllocationFailedMsg)
                        /\ live' = live
                   ELSE /\ thread' = [thread EXCEPT ![t].pc = "track",
                                                    ![t].size = size,
                                                    ![t].ptr = ptr]
                        /\ live' = live \cup {ptr}
                        /\ UNCHANGED <<op, ret, diag>>
    /\ UNCHANGED <<head, node, report, calls, tracked, reuse, order, pos>>

\* The malloc of the node and its test, then new_node->ptr, ->size and
\* new_node->next = head (the read of head).
RaceTrack(t) ==
    /\ Step(t, "track")
    /\ \E new_node \in malloc(live) :
          IF new_node = NULL
          THEN IF thread[t].ptr \in live
               THEN /\ Return(t, "report", NULL, "my_malloc", thread[t].size,
                              NULL, TrackingFailedMsg)
                    /\ live' = free(live, thread[t].ptr)
                    /\ UNCHANGED <<head, node, tracked>>
               ELSE Undefined(t)
          ELSE /\ thread' = [thread EXCEPT ![t].pc = "publish",
                                           ![t].new_node = new_node]
               /\ node' = Put(node, new_node,
                              [ptr |-> thread[t].ptr,
                               size |-> thread[t].size,
                               next |-> head])
               /\ live' = live \cup {new_node}
               /\ UNCHANGED <<head, op, ret, diag, tracked>>
    /\ UNCHANGED <<report, calls, reuse, order, pos>>

\* head = new_node (the write of head); return ptr.
RacePublish(t) ==
    /\ Step(t, "publish")
    /\ head' = thread[t].new_node
    /\ Return(t, "report", thread[t].ptr, "my_malloc", thread[t].size,
              thread[t].ptr, "none")
    /\ tracked' = Put(tracked, thread[t].ptr, thread[t].size)
    /\ UNCHANGED <<node, live, report, calls, reuse, order, pos>>

\* Report_memory_leaks up to its loop: current = head (the read of head),
\* the head == NULL test and the first message.
RaceReport(t) ==
    /\ Begin(t, "report")
    /\ IF head = NULL
       THEN Return(t, "free", thread[t].data, "Report_memory_leaks", NULL,
                   NULL, NoLeaksMsg)
       ELSE /\ thread' = [thread EXCEPT ![t].pc = "lines",
                                        ![t].current = head]
            /\ diag' = LeaksMsg
            /\ UNCHANGED <<op, ret>>
    /\ report' = <<>>
    /\ UNCHANGED <<head, node, live, calls, tracked, reuse, order, pos>>

\* One turn of the loop of Report_memory_leaks: one line, then the read of
\* current->next. The lines kept are the first NAddr + 1, as in Walk.
RaceLine(t) ==
    /\ Step(t, "lines")
    /\ LET current == thread[t].current
       IN  IF current = NULL
           THEN /\ Return(t, "free", thread[t].data, "Report_memory_leaks",
                          NULL, NULL, diag)
                /\ UNCHANGED <<head, node, live, tracked, report>>
           ELSE IF current \notin DOMAIN node
           THEN Undefined(t) /\ report' = report
           ELSE /\ report' =
                      IF Len(report) <= NAddr
                      THEN Append(report, [ptr |-> node[current].ptr,
                                           size |-> node[current].size])
                      ELSE report
                /\ thread' = [thread EXCEPT
                                 ![t].current = node[current].next]
                /\ UNCHANGED <<head, node, live, op, ret, diag, tracked>>
    /\ UNCHANGED <<calls, reuse, order, pos>>

\* my_free(data) up to the start of its loop: the ptr == NULL test, then
\* current = head (the read of head), previous = NULL.
RaceSearch(t) ==
    /\ Begin(t, "free")
    /\ LET ptr == thread[t].data
       IN  IF ptr = NULL
           THEN Return(t, "done", NULL, "my_free", ptr, NULL, "none")
           ELSE /\ thread' = [thread EXCEPT ![t].pc = "find",
                                            ![t].ptr = ptr,
                                            ![t].current = head]
                /\ UNCHANGED <<op, ret, diag>>
    /\ UNCHANGED <<head, node, live, report, calls, tracked, reuse, order,
                   pos>>

\* One turn of the loop of my_free: the test of current, the read of
\* current->ptr and, with no match, of current->next.
RaceFind(t) ==
    /\ Step(t, "find")
    /\ LET current == thread[t].current
       IN  IF current = NULL
           THEN /\ Return(t, "done", NULL, "my_free", thread[t].ptr, NULL,
                          UntrackedFreeMsg)
                /\ UNCHANGED <<head, node, live, tracked>>
           ELSE IF current \notin DOMAIN node
           THEN Undefined(t)
           ELSE /\ thread' =
                      IF node[current].ptr = thread[t].ptr
                      THEN [thread EXCEPT ![t].pc = "unlink"]
                      ELSE [thread EXCEPT ![t].previous = current,
                                          ![t].current = node[current].next]
                /\ UNCHANGED <<head, node, live, op, ret, diag, tracked>>
    /\ UNCHANGED <<report, calls, reuse, order, pos>>

\* head = current->next or previous->next = current->next (the write of
\* head or of a next field).
RaceUnlink(t) ==
    /\ Step(t, "unlink")
    /\ LET current == thread[t].current
           previous == thread[t].previous
       IN  IF \/ current \notin DOMAIN node
              \/ previous # NULL /\ previous \notin DOMAIN node
           THEN Undefined(t)
           ELSE /\ IF previous = NULL
                   THEN /\ head' = node[current].next
                        /\ node' = node
                   ELSE /\ head' = head
                        /\ node' = [node EXCEPT
                                      ![previous].next = node[current].next]
                /\ thread' = [thread EXCEPT ![t].pc = "release"]
                /\ UNCHANGED <<live, op, ret, diag, tracked>>
    /\ UNCHANGED <<report, calls, reuse, order, pos>>

\* free(current->ptr); free(current); return.
RaceRelease(t) ==
    /\ Step(t, "release")
    /\ LET current == thread[t].current
       IN  IF \/ current \notin DOMAIN node
              \/ node[current].ptr \notin live
           THEN Undefined(t)
           ELSE /\ live' = free(free(live, node[current].ptr), current)
                /\ node' = Drop(node, current)
                /\ tracked' = Drop(tracked, node[current].ptr)
                /\ Return(t, "done", NULL, "my_free", thread[t].ptr, NULL,
                          "none")
                /\ head' = head
    /\ UNCHANGED <<report, calls, reuse, order, pos>>

NextRace ==
    \E t \in Threads :
        \/ RaceAllocate(t)
        \/ RaceTrack(t)
        \/ RacePublish(t)
        \/ RaceReport(t)
        \/ RaceLine(t)
        \/ RaceSearch(t)
        \/ RaceFind(t)
        \/ RaceUnlink(t)
        \/ RaceRelease(t)

SpecRace == InitRace /\ [][NextRace]_vars

\* ------------------------------------------------------------------------
\* Shape of the state
\* ------------------------------------------------------------------------

TypeOK ==
    /\ head \in Ptr
    /\ DOMAIN node \subseteq Addr
    /\ \A a \in DOMAIN node : node[a] \in Node
    /\ live \subseteq Addr
    /\ ret \in Ptr
    /\ diag \in {"none", AllocationFailedMsg, TrackingFailedMsg,
                 UntrackedFreeMsg, NoLeaksMsg, LeaksMsg}
    /\ report \in Seq([ptr : Addr, size : Sizes \ {0}])
    /\ op.name \in {"none", "my_malloc", "my_free", "Report_memory_leaks"}
    /\ reuse \in BOOLEAN
    /\ order \in Seq(Addr)
    /\ pos \in 0 .. NAddr
    /\ phase \in {"off", "alloc", "free", "done", "done_empty", "serial",
                 "overlapped"}
    /\ \A t \in Threads :
          /\ thread[t].pc \in {"idle", "track", "publish", "report", "lines",
                                "free", "find", "unlink", "release", "done",
                                "undefined"}
          /\ thread[t].data \in Ptr
          /\ thread[t].size \in Sizes
          /\ thread[t].ptr \in Ptr
          /\ thread[t].new_node \in Ptr
          /\ thread[t].current \in Ptr
          /\ thread[t].previous \in Ptr

\* ------------------------------------------------------------------------
\* Properties
\* ------------------------------------------------------------------------

\* C1: the list holds a record for address A exactly when an earlier
\* my_malloc returned A and no my_free has found A since.
RegistryIsHistory == Records = DOMAIN tracked

\* A my_free found its argument and other records remain.
RegistryIsHistory_Witness ==
    /\ op.name = "my_free"
    /\ calls # <<>>
    /\ Records # {}
    /\ op.arg \notin Records

\* C2: the list never holds two records with the same address (the raw
\* allocator of the model hands out only blocks that are not live, and
\* hands out freed blocks again).
NoDuplicateRecord ==
    LET c == Chain(node, head)
    IN  \A i, j \in 1 .. Len(c) : i # j => node[c[i]].ptr # node[c[j]].ptr

\* my_malloc returned the address that the my_free before it released,
\* while another record is live.
NoDuplicateRecord_Witness ==
    /\ reuse
    /\ ret \in Records
    /\ Cardinality(Records) >= 2

\* C3: after successful my_malloc calls and one my_free for every returned
\* address, in any order, the list is empty and the report says no leaks.
RoundTrip ==
    /\ (phase = "free" /\ DOMAIN tracked = {}) => head = NULL
    /\ phase \in {"done", "done_empty"} =>
          /\ head = NULL
          /\ diag = NoLeaksMsg
          /\ report = <<>>

\* The report after a round trip that allocated and freed something.
RoundTrip_Witness ==
    /\ phase = "done"
    /\ op.name = "Report_memory_leaks"
    /\ diag = NoLeaksMsg

\* C4: a report has exactly one line {address, size} for each address that
\* was returned and not freed since, with the size asked for, and nothing
\* else; it says no leaks exactly when there is no record.
ReportIsExact ==
    op.name = "Report_memory_leaks" =>
        /\ diag \in {NoLeaksMsg, LeaksMsg}
        /\ diag = NoLeaksMsg <=> head = NULL
        /\ diag = NoLeaksMsg <=> DOMAIN tracked = {}
        /\ Len(report) = Cardinality(DOMAIN tracked)
        /\ \A a \in DOMAIN tracked :
              \E i \in 1 .. Len(report) :
                  report[i] = [ptr |-> a, size |-> tracked[a]]

\* A report of two leaks of different sizes.
ReportIsExact_Witness ==
    /\ op.name = "Report_memory_leaks"
    /\ Len(report) = 2
    /\ report[1].size # report[2].size

\* C5: my_free of a non-NULL address that has no record changes neither the
\* list nor the live blocks, calls neither malloc nor free, and prints the
\* untracked-pointer message; my_free of an address that has a record does
\* not print it.
UntrackedFreeIsNoOp ==
    [][(op'.name = "my_free" /\ op'.arg # NULL) =>
         IF op'.arg \notin Records
         THEN /\ UNCHANGED <<head, node, live>>
              /\ calls' = <<>>
              /\ diag' = UntrackedFreeMsg
         ELSE diag' # UntrackedFreeMsg]_vars

\* An untracked free while records are live.
UntrackedFreeIsNoOp_Witness ==
    /\ op.name = "my_free"
    /\ op.arg # NULL
    /\ diag = UntrackedFreeMsg
    /\ Records # {}

\* C6: when malloc gives the client block and then fails for the node,
\* my_malloc frees the client block, prints the tracking-failed message and
\* returns NULL; the list and the live blocks are as before the call.
TrackingFailureReleasesBlock ==
    [][(/\ op'.name = "my_malloc"
        /\ Len(calls') >= 2
        /\ calls'[1][1] = "malloc" /\ calls'[1][2] # NULL
        /\ calls'[2] = <<"malloc", NULL>>) =>
         /\ calls' = <<calls'[1], calls'[2], <<"free", calls'[1][2]>> >>
         /\ diag' = TrackingFailedMsg
         /\ ret' = NULL
         /\ UNCHANGED <<head, node, live>>]_vars

\* A tracking failure while records are live.
TrackingFailureReleasesBlock_Witness ==
    /\ op.name = "my_malloc"
    /\ diag = TrackingFailedMsg
    /\ Len(calls) = 3
    /\ Records # {}

\* C7: when malloc fails for the client block, my_malloc prints the
\* allocation-failed message, returns NULL, calls the raw allocator no
\* more, and leaves the list and the live blocks as they were.
AllocationFailureIsNoOp ==
    [][(/\ op'.name = "my_malloc"
        /\ calls' # <<>>
        /\ calls'[1] = <<"malloc", NULL>>) =>
         /\ Len(calls') = 1
         /\ diag' = AllocationFailedMsg
         /\ ret' = NULL
         /\ UNCHANGED <<head, node, live>>]_vars

\* An allocation failure while records are live.
AllocationFailureIsNoOp_Witness ==
    /\ op.name = "my_malloc"
    /\ op.arg # 0
    /\ diag = AllocationFailedMsg
    /\ Records # {}

\* C8: my_malloc(0) returns NULL, calls neither malloc nor free, and leaves
\* the list, the live blocks and what a report would print as they were.
ZeroSizeIsNoOp ==
    [][op' = [name |-> "my_malloc", arg |-> 0] =>
         /\ ret' = NULL
         /\ calls' = <<>>
         /\ UNCHANGED <<head, node, live>>
         /\ Entries(node', head') = Entries(node, head)]_vars

\* my_malloc(0) while records are live.
ZeroSizeIsNoOp_Witness ==
    /\ op = [name |-> "my_malloc", arg |-> 0]
    /\ ret = NULL
    /\ Records # {}

\* C9: my_free(NULL) changes neither the list nor the live blocks, calls
\* neither malloc nor free, and does not print the untracked-pointer message.
NullFreeIsNoOp ==
    [][op' = [name |-> "my_free", arg |-> NULL] =>
         /\ UNCHANGED <<head, node, live>>
         /\ calls' = <<>>
         /\ diag' # UntrackedFreeMsg]_vars

\* my_free(NULL) while records are live.
NullFreeIsNoOp_Witness ==
    /\ op = [name |-> "my_free", arg |-> NULL]
    /\ diag = "none"
    /\ Records # {}

\* C10: Report_memory_leaks changes neither the list (its records and their
\* order) nor the live blocks, also when records are live, and a report
\* right after a report prints the same.
ReportIsReadOnly ==
    [][op'.name = "Report_memory_leaks" =>
         /\ UNCHANGED <<head, node, live>>
         /\ calls' = <<>>
         /\ op.name = "Report_memory_leaks" =>
               (report' = report /\ diag' = diag)]_vars

\* A report that lists leaks.
ReportIsReadOnly_Witness ==
    /\ op.name = "Report_memory_leaks"
    /\ diag = LeaksMsg
    /\ report # <<>>
    /\ head # NULL

\* The branch of my_malloc that a call took, read off its raw-allocator
\* calls: none for size 0, one failed malloc, a malloc undone by a free, or
\* two mallocs that succeeded.
Outcome(c) ==
    IF c = <<>> THEN "NoAllocation"
    ELSE IF c[1] = <<"malloc", NULL>> THEN "AllocationFailed"
    ELSE IF Len(c) >= 2 /\ c[2] = <<"malloc", NULL>> THEN "TrackingFailed"
    ELSE "Allocated"

Addresses(e) == [i \in 1 .. Len(e) |-> e[i].ptr]

\* C12: the records are listed most recently allocated first: in every
\* state the list from head carries the live addresses in that order, also
\* after removals, and a report prints them in that order.
ReportNewestFirst ==
    /\ Addresses(Entries(node, head)) = order
    /\ op.name = "Report_memory_leaks" => Addresses(report) = order

\* A report of two records after the record allocated between them was
\* removed from the middle of the list.
ReportNewestFirst_Witness ==
    /\ op.name = "Report_memory_leaks"
    /\ pos = 2
    /\ Len(report) = 2
    /\ Addresses(report) = order

\* C13: my_free of an address that has a record removes that record and no
\* other, keeps the other records, their sizes and their order, and hands
\* the block to free() exactly once, wherever the record was in the list.
FreeRemovesOneRecord ==
    [][(op'.name = "my_free" /\ op'.arg \in Records) =>
         /\ Entries(node', head') =
               SelectSeq(Entries(node, head), LAMBDA e : e.ptr # op'.arg)
         /\ Len(Entries(node', head')) = Len(Entries(node, head)) - 1
         /\ Cardinality({i \in 1 .. Len(calls') :
                            calls'[i] = <<"free", op'.arg>>}) = 1
         /\ \A i \in 1 .. Len(calls') : calls'[i][1] = "free"
         /\ op'.arg \notin live']_vars

\* A my_free that removed the middle one of three records.
FreeRemovesOneRecord_Witness ==
    /\ op.name = "my_free"
    /\ pos = 2
    /\ Len(Chain(node, head)) = 2
    /\ op.arg \notin Records

\* A my_free that removed the last one of three records.
FreeRemovesTail_Witness ==
    /\ op.name = "my_free"
    /\ pos = 3
    /\ Len(Chain(node, head)) = 2

\* A my_free that removed the first one of three records.
FreeRemovesHead_Witness ==
    /\ op.name = "my_free"
    /\ pos = 1
    /\ Len(Chain(node, head)) = 2

\* C14: after every call that touches a record (a node of the registry) or
\* returns an address, each record stores, for its address, the size given to
\* the my_malloc that last returned that address; the call keeps the address
\* and the size of every record it found, and a record is gone only after the
\* my_free of its address.
RecordIsImmutable ==
    [][\/ UNCHANGED <<node, tracked>>
       \/ /\ \A n \in DOMAIN node' :
                /\ node'[n].ptr \in DOMAIN tracked'
                /\ node'[n].size = tracked'[node'[n].ptr]
          /\ \A n \in DOMAIN node :
                IF n \in DOMAIN node'
                THEN /\ node'[n].ptr = node[n].ptr
                     /\ node'[n].size = node[n].size
                ELSE op' = [name |-> "my_free", arg |-> node[n].ptr]]_vars

\* Two records of different sizes are left after a my_free removed a third.
RecordIsImmutable_Witness ==
    /\ op.name = "my_free"
    /\ pos # 0
    /\ Len(Entries(node, head)) = 2
    /\ Entries(node, head)[1].size # Entries(node, head)[2].size
    /\ \A i \in 1 .. 2 :
          Entries(node, head)[i].size = tracked[Entries(node, head)[i].ptr]


\* C15: in every reachable state the list from head has one node per live
\* record, no node twice, and NULL after its last node (head is NULL when
\* there is none); the report walked one node per line it printed, and the
\* my_free that found its record stopped at a place inside the list it
\* walked.
ListEndsInNull ==
    LET c == Chain(node, head)
    IN  /\ Len(c) = Cardinality(DOMAIN tracked)
        /\ \A i, j \in 1 .. Len(c) : c[i] = c[j] => i = j
        /\ c = <<>> <=> head = NULL
        /\ c # <<>> => node[c[Len(c)]].next = NULL
        /\ op.name = "Report_memory_leaks" => Len(report) = Len(c)
        /\ op.name = "my_free" => pos <= Len(c) + 1

\* A my_free walked three records to the NULL at the end and found no match.
ListEndsInNull_Witness ==
    /\ op.name = "my_free"
    /\ diag = UntrackedFreeMsg
    /\ Len(Chain(node, head)) = 3
    /\ node[Chain(node, head)[3]].next = NULL

\* The list from current reaches NULL within n nodes, through blocks that
\* hold a node.
RECURSIVE Intact(_, _, _)
Intact(nd, current, n) ==
    \/ current = NULL
    \/ /\ n > 0
       /\ current \in DOMAIN nd
       /\ Intact(nd, nd[current].next, n - 1)

\* No thread is inside a call.
Quiescent == \A t \in Threads : thread[t].pc \in Between

\* C16: as long as no call of one thread began inside a call of another
\* (the calls were mutually exclusive), no statement is undefined and,
\* between calls, the list is intact, holds exactly the addresses returned
\* and not yet freed, once each and with the sizes asked for, and the live
\* blocks are those addresses and the nodes of the list.
MutualExclusion ==
    phase = "serial" =>
        /\ Defined
        /\ Quiescent =>
              /\ Intact(node, head, NAddr)
              /\ Records = DOMAIN tracked
              /\ Len(Chain(node, head)) = Cardinality(DOMAIN tracked)
              /\ \A i \in 1 .. Len(Entries(node, head)) :
                    Entries(node, head)[i].size =
                        tracked[Entries(node, head)[i].ptr]
              /\ live = DOMAIN tracked \cup
                        {Chain(node, head)[i] : i \in 1 .. Len(Chain(node, head))}

\* Without the exclusion: two my_malloc calls overlapped, both returned
\* their address, no statement was undefined, and the list is intact but
\* has no record for one of the two addresses.
MutualExclusion_Witness ==
    /\ phase = "overlapped"
    /\ Defined
    /\ Quiescent
    /\ op.name = "my_malloc"
    /\ ret # NULL
    /\ Cardinality(DOMAIN tracked) = 2
    /\ Intact(node, head, NAddr)
    /\ \E a \in DOMAIN tracked : a \notin Records

\* With the exclusion: both threads have their address and both records are
\* in the list.
SerialRegistry_Witness ==
    /\ phase = "serial"
    /\ Quiescent
    /\ Cardinality(DOMAIN tracked) = 2
    /\ Intact(node, head, NAddr)
    /\ Records = DOMAIN tracked

\* Without the exclusion: a thread read or wrote a node another thread had
\* freed.
UseAfterFree_Witness ==
    /\ phase = "overlapped"
    /\ \E t \in Threads : thread[t].pc = "undefined"

\* The live blocks after the raw-allocator calls c, made in that order
\* with the blocks L live before them.
RECURSIVE After(_, _)
After(L, c) ==
    IF c = <<>> THEN L
    ELSE LET before == After(L, SubSeq(c, 1, Len(c) - 1))
             last == c[Len(c)]
         IN  IF last[1] = "free" THEN free(before, last[2])
             ELSE IF last[2] = NULL THEN before
             ELSE before \cup {last[2]}

\* The live blocks are the addresses returned and not yet freed together
\* with the nodes of the list, one node per record and no block in both
\* roles.
LiveIsTracked ==
    LET c == Chain(node, head)
        nodes == {c[i] : i \in 1 .. Len(c)}
    IN  /\ live = DOMAIN tracked \cup nodes
        /\ nodes = DOMAIN node
        /\ nodes \cap DOMAIN tracked = {}
        /\ Cardinality(nodes) = Cardinality(DOMAIN tracked)

\* Every block a call passed to free() was live at that moment: live before
\* the call or handed out by a malloc of the call, and not freed by the call
\* before.
FreesAreOfLive ==
    \A k \in 1 .. Len(calls') :
        calls'[k][1] = "free" =>
           calls'[k][2] \in After(live, SubSeq(calls', 1, k - 1))

\* C17: in every reachable state the live blocks of the raw allocator are
\* exactly the tracked client blocks plus one node per record of the list,
\* and no call passes to free() a block that is not live at that moment.
HeapIsRegistry == []LiveIsTracked /\ [][FreesAreOfLive]_vars

\* A my_malloc whose node allocation failed gave its block back while two
\* records were live: four blocks stay live.
HeapIsRegistry_Witness ==
    /\ op.name = "my_malloc"
    /\ diag = TrackingFailedMsg
    /\ Len(calls) = 3
    /\ calls[3][1] = "free"
    /\ Cardinality(DOMAIN tracked) = 2
    /\ Cardinality(live) = 4

\* A my_free released the block and the node of one of three records.
HeapAfterFree_Witness ==
    /\ op.name = "my_free"
    /\ Len(calls) = 2
    /\ Cardinality(DOMAIN tracked) = 2
    /\ Cardinality(live) = 4
\* C18: a my_free of a non-NULL address prints the untracked-pointer message
\* exactly when no my_malloc has returned the address since a my_free last
\* found it (or ever); a my_free of the address the my_free just before it
\* found prints it; a my_free of an address that was released and that the
\* my_malloc just before it returned again prints nothing, removes the
\* record of that my_malloc, which is the first of the list, and frees its
\* block and its node.
KeyedByAddress ==
    [][(op'.name = "my_free" /\ op'.arg # NULL) =>
          /\ diag' = UntrackedFreeMsg <=> op'.arg \notin DOMAIN tracked
          /\ (op.name = "my_free" /\ op.arg = op'.arg /\ diag = "none") =>
                diag' = UntrackedFreeMsg
          /\ (reuse /\ op.name = "my_malloc" /\ op'.arg = ret) =>
                /\ diag' = "none"
                /\ node[head].ptr = ret
                /\ node[head].size = op.arg
                /\ head' = node[head].next
                /\ calls' = << <<"free", ret>>, <<"free", head>> >>
                /\ ret \notin live'
                /\ ret \notin DOMAIN tracked']_vars

\* The pointer was released, the next my_malloc returned its address again,
\* and the my_free of it that followed found a record and released the
\* block.
KeyedByAddress_Witness ==
    /\ op.name = "my_free"
    /\ reuse
    /\ diag = "none"
    /\ Len(calls) = 2
    /\ calls[1] = <<"free", op.arg>>
    /\ op.arg \notin live
    /\ op.arg \notin DOMAIN tracked

=============================================================================
